---- MODULE Spec2Model ----
(***************************************************************************)
(* State-machine model of pyod.models.xgbod.XGBOD                          *)
(* (src/pyod/models/xgbod.py): one XGBOD object, its constructor           *)
(* arguments, and the calls fit / fit_predict / fit_predict_score /        *)
(* decision_function / predict / predict_proba made on it.                 *)
(*                                                                         *)
(* Data sets are identified by small integers; a matrix is the sequence    *)
(* of its columns and every column records where it came from.  Arrays of  *)
(* per-sample values (scores, labels) are represented by one              *)
(* representative sample.                                                  *)
(***************************************************************************)
EXTENDS Integers, Sequences, FiniteSets, TLC

----------------------------------------------------------------------------
(* Bounds of the model *)

NData == 2
MaxFits == 2
MaxUserDetectors == 2
NLevels == 3

----------------------------------------------------------------------------
(* Inputs *)

Malformed == 0
Data == 1..NData
Inputs == Data \cup {Malformed}

\* X.shape[0] of data set d
NSamples(d) ==
  CASE d = 1 -> 5
    [] d = 2 -> 101
    [] d = 3 -> 2
    [] d = 4 -> 11
    [] OTHER -> 10 * d

\* X.shape[1] of data set d
NFeatures(d) == 1 + (d % 2)

\* the label vector passed with data set d
Labels(d) == d

Metrics == {"roc_auc_score", "prc_n_score", "bad_name"}

Min(S) == CHOOSE x \in S : \A z \in S : x <= z

\* Python None for the two constructor lists: <<>> is None, <<v>> is v
PyNone == <<>>
Some(v) == <<v>>
IsNone(o) == Len(o) = 0
Val(o) == o[1]

----------------------------------------------------------------------------
(* Ensemble members *)

NeighborFamilies == {"KNN_largest", "KNN_mean", "LOF"}

Detector(family, param, hasFit, hasDF, consistent, id) ==
  [family |-> family, param |-> param, hasFit |-> hasFit, hasDF |-> hasDF,
   consistent |-> consistent, id |-> id, fitted_by |-> 0,
   fitted_data |-> 0, fitted_scaler |-> 0]

\* _init_detectors: the predefined hyper-parameter ranges
k_range_all == <<1, 3, 5, 10, 20, 30, 40, 50, 60, 70, 80, 90, 100>>
n_bins_range == <<3, 5, 7, 9, 12, 15, 20, 25, 30, 50>>
\* nu in hundredths: 0.01, 0.1, ..., 0.9, 0.99
nu_range == <<1, 10, 20, 30, 40, 50, 60, 70, 80, 90, 99>>
n_range == <<10, 20, 50, 70, 100, 150, 200, 250>>

KFeasibleInclusive(k, n) == k <= n

\* k_range = [k for k in k_range if k < X.shape[0]]
KFeasible(k, n) == k < n

NeighborFamilyAt(j) ==
  CASE j = 0 -> "KNN_largest"
    [] j = 1 -> "KNN_mean"
    [] OTHER -> "LOF"

\* estimator_list, standardization_flag_list = self._init_detectors(X)
init_detectors(n) ==
  LET k_range == SelectSeq(k_range_all, LAMBDA k : KFeasible(k, n))
      nK == 3 * Len(k_range)
      nH == Len(n_bins_range)
      nO == Len(nu_range)
      nI == Len(n_range)
      total == nK + nH + nO + nI
      member(i) ==
        IF i <= nK
        THEN Detector(NeighborFamilyAt((i - 1) % 3),
                      k_range[((i - 1) \div 3) + 1], TRUE, TRUE, FALSE, i)
        ELSE IF i <= nK + nH
        THEN Detector("HBOS", n_bins_range[i - nK], TRUE, TRUE, FALSE, i)
        ELSE IF i <= nK + nH + nO
        THEN Detector("OCSVM", nu_range[i - nK - nH], TRUE, TRUE, FALSE, i)
        ELSE Detector("IForest", n_range[i - nK - nH - nO],
                      TRUE, TRUE, FALSE, i)
      flag(i) ==
        IF i <= nK THEN TRUE
        ELSE IF i <= nK + nH THEN FALSE
        ELSE IF i <= nK + nH + nO THEN TRUE
        ELSE FALSE
  IN [estimator_list |-> [i \in 1..total |-> member(i)],
      standardization_flag_list |-> [i \in 1..total |-> flag(i)]]

----------------------------------------------------------------------------
(* Matrices: sequences of columns *)

\* column j of the validated input X
RawColumn(X, j) ==
  [kind |-> "raw", src |-> "X", ind |-> j, member |-> 0,
   val |-> <<0, j, 0, 0, X, 0>>]

\* a column of np.zeros
ZeroColumn(i) ==
  [kind |-> "zero", src |-> "zeros", ind |-> i, member |-> 0,
   val |-> <<3, 0, 0, 0, 0, 0>>]

\* estimator.decision_scores_ of a member fitted on (data, scaler)
TrainingScores(m, data, scaler) == <<1, m.id, data, scaler, 0, 0>>

\* estimator.decision_scores_ written to X_train_add_[:, ind]
FitColumn(m, ind, data, scaler) ==
  [kind |-> "score", src |-> "decision_scores_", ind |-> ind,
   member |-> m.id, val |-> TrainingScores(m, data, scaler)]

\* estimator.decision_function(input): a member that reproduces its
\* training scores returns them on its training input; nothing more is
\* known of the values a member returns
DecisionFunctionScores(m, data, scaler) ==
  IF m.consistent /\ m.fitted_data = data /\ m.fitted_scaler = scaler
  THEN TrainingScores(m, data, scaler)
  ELSE <<2, m.id, m.fitted_data, m.fitted_scaler, data, scaler>>

RawColumns(X) == [j \in 1..NFeatures(X) |-> RawColumn(X, j)]

Vals(M) == [i \in 1..Len(M) |-> M[i].val]

\* the sum of the entries of a sequence of numbers
SumSeq(s) ==
  LET acc[i \in 0..Len(s)] == IF i = 0 THEN 0 ELSE acc[i - 1] + s[i]
  IN acc[Len(s)]

\* a number that stands for the values of the columns of M
Weight(M) == SumSeq([i \in 1..Len(M) |-> SumSeq(M[i].val)])

----------------------------------------------------------------------------
(* The external collaborators: scaler and boosting classifier *)

NoScaler == [data |-> 0, by |-> 0]
NoClf == [fitted |-> FALSE, by |-> 0, w |-> 0, width |-> 0]
NoArray == [clf |-> 0, vals |-> <<>>, level |-> 0]

\* standardizer(X, keep_scalar=True): a scaler fitted on X by fit call fid
standardizer(X, fid) == [data |-> X, by |-> fid]

\* XGBClassifier(...).fit(X_train_new_, y) with a fixed random_state: the
\* learned model is a function of the training matrix and the labels
XGBFit(M, y, fid) ==
  [fitted |-> TRUE, by |-> fid, w |-> (y + Weight(M)) % NLevels,
   width |-> Len(M)]

\* clf_.predict_proba(M)[:, 1]: a deterministic function of the fitted
\* model and of the values of M, in levels 0..NLevels-1 of [0, 1]
XGBPredictProba(clf, M) ==
  [clf |-> clf.by, vals |-> Vals(M),
   level |-> (clf.w + Weight(M)) % NLevels]

\* clf_.predict(M): the class is 1 where the probability exceeds 0.5
XGBPredict(clf, M) ==
  [clf |-> clf.by, vals |-> Vals(M),
   level |-> IF 2 * XGBPredictProba(clf, M).level > NLevels - 1
             THEN 1 ELSE 0]

----------------------------------------------------------------------------
(* Validation of the ensemble *)

ListLengthsDifferIgnored(el, fl) == FALSE

\* if len(self.estimator_list) != len(self.standardization_flag_list)
ListLengthsDiffer(el, fl) == Len(el) # Len(fl)

\* check_parameter(len(self.estimator_list), low=1, include_left=True)
check_parameter(n, low) == n >= low

\* check_detector(estimator): the member has fit and decision_function
check_detector(m) == m.hasFit /\ m.hasDF

\* self.estimator_list, self.standardization_flag_list = d
SetLists(self, d) ==
  [self EXCEPT !.estimator_list = Some(d.estimator_list),
               !.standardization_flag_list =
                   Some(d.standardization_flag_list)]

\* if self.estimator_list is None: build the default ensemble for X
WithDefaultDetectors(self, X) ==
  IF IsNone(self.estimator_list)
  THEN SetLists(self, init_detectors(NSamples(X)))
  ELSE self

\* if self.standardization_flag_list is None: [True] * len(estimator_list)
WithDefaultFlags(self) ==
  IF IsNone(self.standardization_flag_list)
  THEN [self EXCEPT !.standardization_flag_list =
          Some([i \in 1..Len(Val(self.estimator_list)) |-> TRUE])]
  ELSE self

\* the three checks, in the order of the code
ValidationOutcome(el, fl) ==
  IF ListLengthsDiffer(el, fl) THEN "ValueError:lengths"
  ELSE IF ~check_parameter(Len(el), 1) THEN "ValueError:empty"
  ELSE IF \E i \in 1..Len(el) : ~check_detector(el[i])
  THEN "AttributeError:detector"
  ELSE "ok"

Validated(self) ==
  [self |-> self,
   outcome |-> ValidationOutcome(Val(self.estimator_list),
                                 Val(self.standardization_flag_list)),
   n |-> Len(Val(self.estimator_list))]

\* self._validate_estimator(X): the lists are stored on the object before
\* the checks run
validate_estimator(self, X) ==
  Validated(WithDefaultFlags(WithDefaultDetectors(self, X)))

----------------------------------------------------------------------------
(* Calls made on the collaborators during one operation *)

ScalerObj == 0
ClfObj == -1

\* one call of `method` on a collaborator: member index, scaler or clf
Call(obj, method) == [obj |-> obj, method |-> method]

\* how a call ended: the object after it, the error or "ok", what was
\* returned, the augmented matrix it built and the calls it made
Outcome(self, outcome, returns, value, M, trace) ==
  [self |-> self, outcome |-> outcome, fit_outcome |-> outcome,
   returns |-> returns, value |-> value, M |-> M, trace |-> trace]

----------------------------------------------------------------------------
(* fit *)

\* what the collaborators do during one fit call: nothing goes wrong, the
\* fit of the last member raises, XGBClassifier cannot be constructed, or
\* its fit raises
Faults == {"none", "member_fit", "ctor", "clf_fit"}

\* if self.standardization_flag_list[ind]: estimator.fit(X_norm)
\* else: estimator.fit(X)     -- 0 stands for the unscaled input
FitInputScaler(flag, scalar) == IF flag THEN scalar.data ELSE 0

\* the first index at which the fitting loop raises, 0 if it completes:
\* the flag list is too short, the member has no fit, a neighbor member is
\* given no more than k samples, or the member's fit fails
FitStop(el, fl, n, fault) ==
  LET bad == {i \in 1..Len(el) :
                \/ i > Len(fl)
                \/ ~el[i].hasFit
                \/ el[i].family \in NeighborFamilies /\ ~(el[i].param < n)
                \/ i = Len(el) /\ fault = "member_fit"}
  IN IF bad = {} THEN 0 ELSE Min(bad)

FitError(el, fl, stop) ==
  IF stop > Len(fl) THEN "IndexError"
  ELSE IF ~el[stop].hasFit THEN "AttributeError:fit"
  ELSE "Error:member_fit"

\* whether estimator.fit was entered on the member the loop stopped at
FitInvoked(el, fl, stop) == stop <= Len(fl) /\ el[stop].hasFit

\* the members after the loop: those before the stop are fitted
FittedMembers(el, fl, scalar, stop, X, fid) ==
  [i \in 1..Len(el) |->
     IF stop = 0 \/ i < stop
     THEN [el[i] EXCEPT !.fitted_by = fid, !.fitted_data = X,
                        !.fitted_scaler = FitInputScaler(fl[i], scalar)]
     ELSE el[i]]

\* self.X_train_add_: zeros, then one column per fitted member
TrainAdd(el, fl, n, scalar, stop, X) ==
  [i \in 1..n |->
     IF i <= Len(el) /\ (stop = 0 \/ i < stop)
     THEN FitColumn(el[i], i, X, FitInputScaler(fl[i], scalar))
     ELSE ZeroColumn(i)]

\* the calls of standardizer and of the fitting loop
FitTrace(el, fl, stop) ==
  <<Call(ScalerObj, "fit")>> \o
  [i \in 1..(IF stop = 0 THEN Len(el)
             ELSE IF FitInvoked(el, fl, stop) THEN stop ELSE stop - 1)
     |-> Call(i, "fit")]

\* self.decision_scores_ and self.labels_ from the fitted classifier
fit_scores(self, clf, t) ==
  Outcome([self EXCEPT
             !.clf_ = clf,
             !.decision_scores_ = XGBPredictProba(clf, self.X_train_new_),
             !.labels_ = XGBPredict(clf, self.X_train_new_),
             !.attrs = @ \cup {"clf_", "decision_scores_", "labels_"}],
          "ok", "self", NoArray, self.X_train_new_,
          t \o <<Call(ClfObj, "__init__"), Call(ClfObj, "fit"),
                 Call(ClfObj, "predict_proba"), Call(ClfObj, "predict")>>)

\* self.clf_ = XGBClassifier(...); self.clf_.fit(self.X_train_new_, y)
fit_meta(self, t, y, fault, fid) ==
  IF fault = "ctor"
  THEN Outcome(self, "NameError:XGBClassifier", "nothing", NoArray,
               self.X_train_new_, t)
  ELSE IF fault = "clf_fit"
  THEN Outcome([self EXCEPT !.clf_ = [NoClf EXCEPT !.by = fid],
                            !.attrs = @ \cup {"clf_"}],
               "Error:clf_fit", "nothing", NoArray, self.X_train_new_,
               t \o <<Call(ClfObj, "__init__"), Call(ClfObj, "fit")>>)
  ELSE fit_scores(self, XGBFit(self.X_train_new_, y, fid), t)

\* after the loop: it raised, or the new feature space is constructed
fit_concatenate(self, el, fl, stop, t, X, y, fault, fid) ==
  IF stop # 0
  THEN Outcome(self, FitError(el, fl, stop), "nothing", NoArray, <<>>, t)
  ELSE fit_meta([self EXCEPT
                   !.X_train_new_ = RawColumns(X) \o self.X_train_add_,
                   !.attrs = @ \cup {"X_train_new_"}],
                t, y, fault, fid)

\* n_detector_, X_train_add_, the scaler and the fitting loop
fit_loop(self, el, fl, n, scalar, stop, X, y, fault, fid) ==
  fit_concatenate(
    [self EXCEPT
       !.estimator_list = Some(FittedMembers(el, fl, scalar, stop, X, fid)),
       !.n_detector_ = n,
       !.X_train_add_ = TrainAdd(el, fl, n, scalar, stop, X),
       !.scalar = scalar,
       !.attrs = @ \cup {"n_detector_", "X_train_add_", "_scalar"}],
    el, fl, stop, FitTrace(el, fl, stop), X, y, fault, fid)

fit_members(self, el, fl, n, X, y, fault, fid) ==
  fit_loop(self, el, fl, n, standardizer(X, fid),
           FitStop(el, fl, NSamples(X), fault), X, y, fault, fid)

fit_validated(v, X, y, fault, fid) ==
  IF v.outcome # "ok"
  THEN Outcome(v.self, v.outcome, "nothing", NoArray, <<>>, <<>>)
  ELSE fit_members(v.self, Val(v.self.estimator_list),
                   Val(v.self.standardization_flag_list), v.n,
                   X, y, fault, fid)

\* XGBOD.fit(X, y); fault is the behaviour of the collaborators, fid
\* numbers the call
fit(self, X, y, fault, fid) ==
  IF X = Malformed
  THEN Outcome(self, "ValueError:input", "nothing", NoArray, <<>>, <<>>)
  ELSE fit_validated(validate_estimator(self, X), X, y, fault, fid)

ScoringFallback(scoring, scores) ==
  IF scoring = "prc_n_score"
  THEN [outcome |-> "ok", returns |-> "prc_n_score", value |-> scores]
  ELSE [outcome |-> "ok", returns |-> "roc_auc_score", value |-> scores]

\* the metric selection of fit_predict_score, applied to decision_scores_
Scoring(scoring, scores) ==
  IF scoring = "roc_auc_score"
  THEN [outcome |-> "ok", returns |-> "roc_auc_score", value |-> scores]
  ELSE IF scoring = "prc_n_score"
  THEN [outcome |-> "ok", returns |-> "prc_n_score", value |-> scores]
  ELSE [outcome |-> "NotImplementedError", returns |-> "nothing",
        value |-> NoArray]

Scored(r, sc) ==
  [r EXCEPT !.outcome = sc.outcome, !.returns = sc.returns,
            !.value = sc.value]

score_after_fit(r, scoring) ==
  IF r.outcome # "ok" THEN r
  ELSE Scored(r, Scoring(scoring, r.self.decision_scores_))

\* fit_predict_score: self.fit(X, y), then the metric
fit_predict_score(self, X, y, scoring, fault, fid) ==
  score_after_fit(fit(self, X, y, fault, fid), scoring)

----------------------------------------------------------------------------
(* Inference *)

FittedAttributesScalarOnly == {"_scalar"}

\* check_is_fitted(self, ['clf_', 'decision_scores_', 'labels_', '_scalar'])
FittedAttributes == {"clf_", "decision_scores_", "labels_", "_scalar"}

\* check_is_fitted passes when every listed attribute exists
check_is_fitted(self) == FittedAttributes \subseteq self.attrs

ScalerRefit(scalar, X) ==
  [scalar |-> [scalar EXCEPT !.data = X], call |-> "fit"]

\* X_norm = self._scalar.transform(X): the scaler itself is only read
ScalerTransform(scalar, X) == [scalar |-> scalar, call |-> "transform"]

TransformInputScalerRaw(flag, scalar) == 0

\* if self.standardization_flag_list[ind]: decision_function(X_norm)
\* else: decision_function(X)
TransformInputScaler(flag, scalar) == IF flag THEN scalar.data ELSE 0

\* the column a member's decision_function gives for X
ScoreColumn(m, flag, scalar, X, ind) ==
  [kind |-> "score", src |-> "decision_function", ind |-> ind,
   member |-> m.id,
   val |-> DecisionFunctionScores(m, X, TransformInputScaler(flag, scalar))]

TransformColumnReversed(el, fl, scalar, X, ind) ==
  ScoreColumn(el[Len(el) + 1 - ind], fl[ind], scalar, X, ind)

\* X_add[:, ind] = estimator.decision_function(...) for the member at ind
TransformColumn(el, fl, scalar, X, ind) ==
  ScoreColumn(el[ind], fl[ind], scalar, X, ind)

\* the first index at which the scoring loop raises, 0 if it completes
TransformStop(el, fl, n_detector, X) ==
  LET bad == {i \in 1..Len(el) :
                \/ i > Len(fl)
                \/ ~el[i].hasDF
                \/ el[i].fitted_by = 0
                \/ NFeatures(el[i].fitted_data) # NFeatures(X)
                \/ i > n_detector}
  IN IF bad = {} THEN 0 ELSE Min(bad)

TransformError(el, fl, stop) ==
  IF stop > Len(fl) THEN "IndexError"
  ELSE IF ~el[stop].hasDF THEN "AttributeError:decision_function"
  ELSE "Error:member_decision_function"

TransformInvoked(el, fl, stop) == stop <= Len(fl) /\ el[stop].hasDF

\* the calls of the scaler and of the scoring loop
TransformTrace(el, fl, stop, call) ==
  <<Call(ScalerObj, call)>> \o
  [i \in 1..(IF stop = 0 THEN Len(el)
             ELSE IF TransformInvoked(el, fl, stop) THEN stop ELSE stop - 1)
     |-> Call(i, "decision_function")]

generate_columns(self, el, fl, stop, call, X) ==
  IF stop # 0
  THEN [self |-> self, outcome |-> TransformError(el, fl, stop),
        X_add |-> <<>>, trace |-> TransformTrace(el, fl, stop, call)]
  ELSE [self |-> self, outcome |-> "ok",
        X_add |-> [i \in 1..self.n_detector_ |->
                     IF i <= Len(el)
                     THEN TransformColumn(el, fl, self.scalar, X, i)
                     ELSE ZeroColumn(i)],
        trace |-> TransformTrace(el, fl, stop, call)]

generate_scaled(self, st, X) ==
  IF NFeatures(st.scalar.data) # NFeatures(X)
  THEN [self |-> [self EXCEPT !.scalar = st.scalar],
        outcome |-> "ValueError:transform", X_add |-> <<>>,
        trace |-> <<Call(ScalerObj, st.call)>>]
  ELSE generate_columns([self EXCEPT !.scalar = st.scalar],
                        Val(self.estimator_list),
                        Val(self.standardization_flag_list),
                        TransformStop(Val(self.estimator_list),
                                      Val(self.standardization_flag_list),
                                      self.n_detector_, X),
                        st.call, X)

\* self._generate_new_features(X)
generate_new_features(self, X) ==
  generate_scaled(self, ScalerTransform(self.scalar, X), X)

\* self.clf_.predict_proba(X_new)[:, 1] or self.clf_.predict(X_new)
classify(self, X_new, t, op) ==
  IF "clf_" \notin self.attrs
  THEN Outcome(self, "AttributeError:clf_", "nothing", NoArray, X_new, t)
  ELSE IF ~self.clf_.fitted
  THEN Outcome(self, "Error:clf_not_fitted", "nothing", NoArray, X_new,
               t \o <<Call(ClfObj, op)>>)
  ELSE IF self.clf_.width # Len(X_new)
  THEN Outcome(self, "Error:clf_features", "nothing", NoArray, X_new,
               t \o <<Call(ClfObj, op)>>)
  ELSE IF op = "predict"
  THEN Outcome(self, "ok", "labels", XGBPredict(self.clf_, X_new), X_new,
               t \o <<Call(ClfObj, op)>>)
  ELSE Outcome(self, "ok", "scores", XGBPredictProba(self.clf_, X_new),
               X_new, t \o <<Call(ClfObj, op)>>)

\* X_new = np.concatenate((X, X_add), axis=1), then the classifier
classify_generated(g, X, op) ==
  IF g.outcome # "ok"
  THEN Outcome(g.self, g.outcome, "nothing", NoArray, <<>>, g.trace)
  ELSE classify(g.self, RawColumns(X) \o g.X_add, g.trace, op)

\* decision_function and predict_proba, which returns
\* self.decision_function(X) (op = "predict_proba"), and predict
inference(self, op, X) ==
  IF ~check_is_fitted(self)
  THEN Outcome(self, "NotFittedError", "nothing", NoArray, <<>>, <<>>)
  ELSE IF X = Malformed
  THEN Outcome(self, "ValueError:input", "nothing", NoArray, <<>>, <<>>)
  ELSE IF IsNone(self.estimator_list)
          \/ IsNone(self.standardization_flag_list)
          \/ "n_detector_" \notin self.attrs
  THEN Outcome(self, "TypeError", "nothing", NoArray, <<>>, <<>>)
  ELSE classify_generated(generate_new_features(self, X), X, op)

----------------------------------------------------------------------------
(* The object and the calls made on it *)

VARIABLES
  estimator_list,             \* self.estimator_list (PyNone or Some(list))
  standardization_flag_list,  \* self.standardization_flag_list
  attrs,                      \* the fitted attributes that exist on self
  n_detector_,
  X_train_add_,
  X_train_new_,
  scalar,                     \* self._scalar
  clf_,
  decision_scores_,
  labels_,
  lastCall,                   \* the most recent call and how it ended
  fitLog,                     \* the fit calls made so far, in order
  ctor                        \* the constructor arguments

vars == <<estimator_list, standardization_flag_list, attrs, n_detector_,
          X_train_add_, X_train_new_, scalar, clf_, decision_scores_,
          labels_, lastCall, fitLog, ctor>>

\* the object as one record
Self ==
  [estimator_list |-> estimator_list,
   standardization_flag_list |-> standardization_flag_list,
   attrs |-> attrs, n_detector_ |-> n_detector_,
   X_train_add_ |-> X_train_add_, X_train_new_ |-> X_train_new_,
   scalar |-> scalar, clf_ |-> clf_,
   decision_scores_ |-> decision_scores_, labels_ |-> labels_]

\* detectors a caller may pass: with or without the two capabilities, and
\* reproducing their training scores on their training input or not
UserKinds ==
  {[hasFit |-> TRUE, hasDF |-> TRUE, consistent |-> TRUE],
   [hasFit |-> TRUE, hasDF |-> TRUE, consistent |-> FALSE],
   [hasFit |-> FALSE, hasDF |-> TRUE, consistent |-> FALSE],
   [hasFit |-> TRUE, hasDF |-> FALSE, consistent |-> FALSE]}

Conforming == [hasFit |-> TRUE, hasDF |-> TRUE, consistent |-> TRUE]

UserDetector(k, i) ==
  Detector("user", 0, k.hasFit, k.hasDF, k.consistent, i)

\* estimator lists a caller may pass: the empty list, and lists of
\* conforming detectors that end with a detector of any kind
UserLists ==
  {<<>>} \cup
  {[i \in 1..n |-> UserDetector(IF i = n THEN last ELSE Conforming, i)] :
     n \in 1..MaxUserDetectors, last \in UserKinds}

\* flag lists a caller may pass: all true or all false, of any length
FlagLists ==
  {[i \in 1..m |-> b] : m \in 0..MaxUserDetectors, b \in BOOLEAN}

\* XGBOD.__init__: the arguments are stored, nothing is fitted
Init ==
  /\ \/ /\ estimator_list = PyNone
        /\ standardization_flag_list \in {PyNone, Some(<<FALSE>>)}
     \/ /\ estimator_list \in {Some(l) : l \in UserLists}
        /\ standardization_flag_list \in
             {PyNone} \cup {Some(f) : f \in FlagLists}
  /\ attrs = {}
  /\ n_detector_ = 0
  /\ X_train_add_ = <<>>
  /\ X_train_new_ = <<>>
  /\ scalar = NoScaler
  /\ clf_ = NoClf
  /\ decision_scores_ = NoArray
  /\ labels_ = NoArray
  /\ lastCall = [op |-> "__init__", X |-> 0, scoring |-> "",
                 outcome |-> "ok", returns |-> "nothing", value |-> NoArray,
                 M |-> <<>>, trace |-> <<>>]
  /\ fitLog = <<>>
  /\ ctor = [estimator_list |-> estimator_list,
             standardization_flag_list |-> standardization_flag_list]

\* the object and the record of the call after an operation ended as r
Commit(r, op, X, scoring) ==
  /\ estimator_list' = r.self.estimator_list
  /\ standardization_flag_list' = r.self.standardization_flag_list
  /\ attrs' = r.self.attrs
  /\ n_detector_' = r.self.n_detector_
  /\ X_train_add_' = r.self.X_train_add_
  /\ X_train_new_' = r.self.X_train_new_
  /\ scalar' = r.self.scalar
  /\ clf_' = r.self.clf_
  /\ decision_scores_' = r.self.decision_scores_
  /\ labels_' = r.self.labels_
  /\ lastCall' = [op |-> op, X |-> X, scoring |-> scoring,
                  outcome |-> r.outcome, returns |-> r.returns,
                  value |-> r.value, M |-> r.M, trace |-> r.trace]
  /\ ctor' = ctor

\* a call that runs fit: also noted in the log of fit calls
CommitFit(r, op, X, scoring) ==
  /\ Commit(r, op, X, scoring)
  /\ fitLog' = Append(fitLog, [X |-> X, outcome |-> r.fit_outcome])

Fit ==
  /\ Len(fitLog) < MaxFits
  /\ \E X \in Inputs, fault \in Faults :
       CommitFit(fit(Self, X, Labels(X), fault, Len(fitLog) + 1),
                 "fit", X, "")

FitPredictScore ==
  /\ Len(fitLog) < MaxFits
  /\ \E X \in Inputs, fault \in Faults, scoring \in Metrics :
       CommitFit(fit_predict_score(Self, X, Labels(X), scoring, fault,
                                   Len(fitLog) + 1),
                 "fit_predict_score", X, scoring)

\* the inference calls run no fit: the log of fit calls stays as it is
DecisionFunction ==
  /\ UNCHANGED fitLog
  /\ \E X \in Inputs :
       Commit(inference(Self, "predict_proba", X),
              "decision_function", X, "")

Predict ==
  /\ UNCHANGED fitLog
  /\ \E X \in Inputs :
       Commit(inference(Self, "predict", X), "predict", X, "")

PredictProba ==
  /\ UNCHANGED fitLog
  /\ \E X \in Inputs :
       Commit(inference(Self, "predict_proba", X), "predict_proba", X, "")

Next ==
  \/ Fit
  \/ FitPredictScore
  \/ DecisionFunction
  \/ Predict
  \/ PredictProba

Spec == Init /\ [][Next]_vars

FitOps == {"fit", "fit_predict_score"}
InferenceOps == {"decision_function", "predict", "predict_proba"}

----------------------------------------------------------------------------
(* Properties *)

LastFit == fitLog[Len(fitLog)]
SuccessfulFits == {i \in 1..Len(fitLog) : fitLog[i].outcome = "ok"}
ThisFit == Len(fitLog)

\* the constructor was given lists that validation has to reject
BadConfig ==
  /\ ~IsNone(ctor.estimator_list)
  /\ LET el == Val(ctor.estimator_list)
     IN \/ /\ ~IsNone(ctor.standardization_flag_list)
           /\ Len(el) # Len(Val(ctor.standardization_flag_list))
        \/ Len(el) = 0
        \/ \E i \in 1..Len(el) : ~el[i].hasFit \/ ~el[i].hasDF

\* C1: a fit call on valid X, y whose ensemble validation fails (lists of
\* different lengths, empty estimator list, or a member without fit or
\* decision_function) raises, and when it raises no member's fit has been
\* invoked, the scaler has not been fitted and the meta-classifier has not
\* been created or fitted by that call.
C1_ValidationFailsBeforeFitting ==
  (lastCall.op \in FitOps /\ lastCall.X # Malformed /\ BadConfig) =>
    /\ lastCall.outcome \in {"ValueError:lengths", "ValueError:empty",
                             "AttributeError:detector"}
    /\ lastCall.returns = "nothing"
    /\ \A i \in 1..Len(lastCall.trace) :
         lastCall.trace[i].method \notin {"fit", "__init__"}
    /\ scalar.by # ThisFit
    /\ clf_.by # ThisFit
    /\ \A i \in 1..Len(Val(estimator_list)) :
         Val(estimator_list)[i].fitted_by # ThisFit

C1_Witness ==
  /\ lastCall.op = "fit"
  /\ lastCall.X # Malformed
  /\ BadConfig
  /\ lastCall.outcome = "ValueError:lengths"
  /\ Len(Val(ctor.estimator_list)) = 2

\* C2: decision_function, predict or predict_proba called before any fit
\* call has completed successfully, also after fit calls that raised part
\* way, raises a not-fitted error and returns nothing.
C2_InferenceBeforeFitRaisesNotFitted ==
  (lastCall.op \in InferenceOps /\ SuccessfulFits = {}) =>
    /\ lastCall.outcome = "NotFittedError"
    /\ lastCall.returns = "nothing"

C2_Witness ==
  /\ lastCall.op \in InferenceOps
  /\ SuccessfulFits = {}
  /\ Len(fitLog) > 0
  /\ {"clf_", "_scalar"} \subseteq attrs
  /\ lastCall.outcome = "NotFittedError"

\* C3: fit_predict_score with a metric name other than roc_auc_score and
\* prc_n_score returns no score; it raises the unsupported-metric error
\* exactly when its fit completed, and then the object is fitted by that
\* fit: meta-classifier, scaler, decision_scores_ and labels_ are its own.
C3_UnsupportedMetricRaisesAfterFit ==
  (lastCall.op = "fit_predict_score"
     /\ lastCall.scoring \notin {"roc_auc_score", "prc_n_score"}) =>
    /\ lastCall.outcome # "ok"
    /\ lastCall.returns = "nothing"
    /\ (lastCall.outcome = "NotImplementedError") <=> (LastFit.outcome = "ok")
    /\ lastCall.outcome = "NotImplementedError" =>
         /\ {"clf_", "_scalar", "decision_scores_", "labels_"}
              \subseteq attrs
         /\ clf_.fitted /\ clf_.by = ThisFit
         /\ scalar.by = ThisFit /\ scalar.data = lastCall.X
         /\ decision_scores_.clf = ThisFit
         /\ labels_.clf = ThisFit

C3_Witness ==
  /\ lastCall.op = "fit_predict_score"
  /\ lastCall.scoring = "bad_name"
  /\ lastCall.outcome = "NotImplementedError"
  /\ Len(fitLog) = 1

\* the neighbor counts of the claim that are feasible for n samples
FeasibleKs(n) ==
  {k \in {1, 3, 5, 10, 20, 30, 40, 50, 60, 70, 80, 90, 100} : k < n}

\* the default ensemble as the claim describes it, for n samples
IsDefaultEnsemble(el, fl, n) ==
  LET c == Cardinality(FeasibleKs(n))
      fam == <<"KNN_largest", "KNN_mean", "LOF">>
  IN /\ Len(el) = 3 * c + 29
     /\ Len(fl) = Len(el)
     /\ \A i \in 1..(3 * c) :
          /\ el[i].family = fam[((i - 1) % 3) + 1]
          /\ el[i].param \in FeasibleKs(n)
          /\ Cardinality({k \in FeasibleKs(n) : k <= el[i].param})
               = ((i - 1) \div 3) + 1
          /\ fl[i] = TRUE
     /\ \A i \in (3 * c + 1)..(3 * c + 10) :
          el[i].family = "HBOS" /\ fl[i] = FALSE
     /\ \A i \in (3 * c + 11)..(3 * c + 21) :
          el[i].family = "OCSVM" /\ fl[i] = TRUE
     /\ \A i \in (3 * c + 22)..(3 * c + 29) :
          el[i].family = "IForest" /\ fl[i] = FALSE

\* C4: when no estimator list was supplied, the call that builds the
\* default ensemble for n training samples builds, in this order, three
\* neighbor members per k < n of the fixed set (flag true), 10 histogram
\* members (false), 11 one-class-margin members (true) and 8 isolation
\* members (false), whatever flag list the caller passed.
C4_DefaultEnsembleOrder ==
  [][(IsNone(estimator_list) /\ ~IsNone(estimator_list')) =>
       IsDefaultEnsemble(Val(estimator_list'),
                         Val(standardization_flag_list'),
                         NSamples(lastCall'.X))]_vars

C4_Witness ==
  /\ ~IsNone(ctor.standardization_flag_list)
  /\ IsNone(ctor.estimator_list)
  /\ ~IsNone(estimator_list)
  /\ Len(fitLog) = 1
  /\ lastCall.op \in FitOps
  /\ NSamples(lastCall.X) > 100
  /\ Len(Val(estimator_list)) = 68

\* the columns of an augmented matrix M built from input X
WellFormedAugmented(M, X) ==
  LET nf == NFeatures(X)
      el == Val(estimator_list)
      tf == Len(X_train_new_) - n_detector_
  IN /\ n_detector_ = Len(el)
     /\ n_detector_ = Len(Val(standardization_flag_list))
     /\ Len(M) = nf + n_detector_
     /\ \A j \in 1..nf : M[j] = RawColumn(X, j)
     /\ \A i \in 1..n_detector_ :
          /\ M[nf + i].kind = "score"
          /\ M[nf + i].ind = i
          /\ M[nf + i].member = el[i].id
          /\ M[nf + i].member = X_train_new_[tf + i].member

\* C5: after a successful fit, the augmented matrix of the training call
\* and of every later inference call that reaches the meta-classifier has
\* n_features + n_detector_ columns, the raw input columns first, and score
\* column i produced by the member at index i, the same member at fit and
\* at inference; n_detector_ is the length of both lists.
C5_AugmentedMatrixLayout ==
  /\ (lastCall.op \in InferenceOps /\ lastCall.outcome = "ok") =>
       WellFormedAugmented(lastCall.M, lastCall.X)
  /\ (lastCall.op \in FitOps /\ LastFit.outcome = "ok") =>
       /\ lastCall.M = X_train_new_
       /\ WellFormedAugmented(X_train_new_, lastCall.X)

C5_Witness ==
  /\ lastCall.op = "predict"
  /\ lastCall.outcome = "ok"
  /\ n_detector_ = 2
  /\ Len(lastCall.M) = NFeatures(lastCall.X) + 2

\* decision_function returned for the training data of the latest fit
\* call, and that call completed
ScoredTrainingData ==
  /\ lastCall.op = "decision_function"
  /\ lastCall.outcome = "ok"
  /\ Len(fitLog) > 0
  /\ LastFit.outcome = "ok"
  /\ LastFit.X = lastCall.X

AllMembersReproduce ==
  \A i \in 1..Len(Val(estimator_list)) : Val(estimator_list)[i].consistent

\* C6 as stated: after a successful fit(X, y), decision_function on the
\* training X equals decision_scores_ for every ensemble whose members
\* satisfy only the capability contract.
C6_Original ==
  ScoredTrainingData => lastCall.value = decision_scores_

\* C6, amended: after a successful fit(X, y), decision_function on the
\* training X equals decision_scores_ when every member's
\* decision_function reproduces, on the input the member was fitted on,
\* its training decision_scores_.
C6_TrainingScoresReproduced ==
  (ScoredTrainingData /\ AllMembersReproduce) =>
    lastCall.value = decision_scores_

C6_Witness ==
  /\ ScoredTrainingData
  /\ AllMembersReproduce
  /\ n_detector_ = 2
  /\ Val(standardization_flag_list)[1] = TRUE
  /\ lastCall.value = decision_scores_

Thresholded(level, t) == IF level >= t THEN 1 ELSE 0

\* C7: after a successful fit a threshold is stored on the object, labels_
\* is that threshold applied to decision_scores_, and predict(X) is in
\* {0, 1} and equals decision_function(X) >= threshold.
C7_LabelsAreThresholdedScores ==
  (SuccessfulFits # {} /\ lastCall.outcome = "ok") =>
    /\ "threshold_" \in attrs
    /\ \E t \in 0..NLevels :
         /\ labels_.level = Thresholded(decision_scores_.level, t)
         /\ lastCall.op = "predict" =>
              /\ lastCall.value.level \in {0, 1}
              /\ lastCall.value.level =
                   Thresholded(XGBPredictProba(clf_, lastCall.M).level, t)

\* C8: a decision_function, predict or predict_proba call, returning or
\* raising, leaves the estimator list, the flag list, n_detector_, the
\* scaler, the meta-classifier, decision_scores_, labels_ and the training
\* matrices as they were, calls only decision_function on members, only
\* transform on the scaler and no fit on the meta-classifier.
C8_InferenceLeavesFittedState ==
  [][lastCall'.op \in InferenceOps =>
       /\ UNCHANGED <<estimator_list, standardization_flag_list, attrs,
                      n_detector_, X_train_add_, X_train_new_, scalar,
                      clf_, decision_scores_, labels_>>
       /\ \A i \in 1..Len(lastCall'.trace) :
            LET c == lastCall'.trace[i]
            IN /\ c.obj = ScalerObj => c.method = "transform"
               /\ c.obj = ClfObj =>
                    c.method \in {"predict", "predict_proba"}
               /\ c.obj >= 1 => c.method = "decision_function"]_vars

C8_Witness ==
  /\ lastCall.op = "predict_proba"
  /\ lastCall.outcome = "ok"
  /\ Len(lastCall.trace) = n_detector_ + 2
  /\ Len(fitLog) = 2

\* C9: for an object constructed without an estimator list, every
\* successful fit on n samples uses an ensemble filtered by that n: its
\* length is 3 * |{k : k < n}| + 29 and every neighbor member has k < n.
C9_EnsembleFollowsEachFit ==
  (IsNone(ctor.estimator_list) /\ lastCall.op \in FitOps
     /\ SuccessfulFits = 1..Len(fitLog)) =>
    LET n == NSamples(lastCall.X)
        el == Val(estimator_list)
    IN /\ Len(el) = 3 * Cardinality(FeasibleKs(n)) + 29
       /\ \A i \in 1..Len(el) :
            el[i].family \in NeighborFamilies => el[i].param < n

\* C10: whenever an inference call returns a result, the scaler, the
\* fitted state of every member and the meta-classifier it used come from
\* one and the same successfully completed fit call.
C10_InferenceUsesOneFit ==
  (lastCall.op \in InferenceOps /\ lastCall.outcome = "ok") =>
    \E f \in SuccessfulFits :
      /\ scalar.by = f
      /\ clf_.by = f
      /\ \A i \in 1..Len(Val(estimator_list)) :
           Val(estimator_list)[i].fitted_by = f

====
